---- MODULE Spec2Model ----
(***************************************************************************)
(* Model of the Bunkrr crawler of CyberDropDownloader                      *)
(*   src/cyberdrop_dl/scraper/crawlers/bunkrr_crawler.py                   *)
(*   src/cyberdrop_dl/utils/dataclasses/url_objects.py                     *)
(*                                                                         *)
(* Strings that the code takes apart (hosts, path segments, titles) are    *)
(* sequences of one-character strings, so that the regular expressions,    *)
(* suffix extraction and sanitizing are computed character by character.   *)
(***************************************************************************)
EXTENDS Integers, Sequences, FiniteSets, TLC

VARIABLES
    link_url,       \* SpecLink: the URL handed to get_stream_link
    link_out,       \* SpecLink: results of the calls made so far, in order
    t_item,         \* SpecTitle: the ScrapeItem add_to_parent_title is called on
    t_prev,         \* SpecTitle: <<that item before the last call>>, <<>> before any call
    t_arg,          \* SpecTitle: the title argument of the last call
    config,         \* authentication_data['DDOS-Guard']: key -> value, Absent for no key
    cookies_set,    \* BunkrrCrawler.cookies_set
    cookies,        \* the client's cookie store: cookie name -> <<value>>, <<>> if not set
    updates,        \* per cookie name, the number of update_cookies calls made for it
    tasks,          \* scraping_progress: the task ids registered now
    addCount,       \* scraping_progress: add_task calls made
    removeCount,    \* scraping_progress: remove_task calls made
    scraper_queue,  \* the work queue of ScrapeItems
    call,           \* the fetch calls: call id -> position and locals of that call
    level,          \* request_limiter: the bucket's level
    recent,         \* page fetches started in each of the last ticks, newest first
    lim_waiting,    \* SpecLimiter: handler tasks suspended in "async with request_limiter"
    date_text,      \* SpecDate: the text handed to parse_datetime
    date_out        \* SpecDate: outcome of the call of parse_datetime, NotCalled before it

linkVars == <<link_url, link_out>>
titleVars == <<t_item, t_prev, t_arg>>
cookieVars == <<config, cookies_set, cookies, updates>>
trackerVars == <<tasks, addCount, removeCount>>
limiterVars == <<level, recent, lim_waiting>>
pipeVars == <<cookieVars, trackerVars, scraper_queue, call>>
dateVars == <<date_text, date_out>>
vars == <<linkVars, titleVars, pipeVars, limiterVars, dateVars>>

None == "None"
\* None where a string is expected: a one-element sequence whose element is no character
NoneStr == <<None>>

\* the variables of a specification that is not running
IdleLink ==
    /\ link_url = None
    /\ link_out = <<>>

IdleTitle ==
    /\ t_item = None
    /\ t_prev = <<>>
    /\ t_arg = NoneStr

IdlePipe ==
    /\ config = None
    /\ cookies_set = FALSE
    /\ cookies = None
    /\ updates = None
    /\ tasks = {}
    /\ addCount = 0
    /\ removeCount = 0
    /\ scraper_queue = <<>>
    /\ call = <<>>

IdleLimiter ==
    /\ level = 0
    /\ recent = <<>>
    /\ lim_waiting = 0

\* the outcome of a call of parse_datetime that has not been made
NotCalled == [called |-> FALSE, raised |-> FALSE, value |-> 0]

IdleDate ==
    /\ date_text = <<>>
    /\ date_out = NotCalled

(***************************************************************************)
(* Characters and strings                                                  *)
(***************************************************************************)
UpperSeq == <<"A","B","C","D","E","F","G","H","I","J","K","L","M",
              "N","O","P","Q","R","S","T","U","V","W","X","Y","Z">>
LowerSeq == <<"a","b","c","d","e","f","g","h","i","j","k","l","m",
              "n","o","p","q","r","s","t","u","v","w","x","y","z">>
Lower == {LowerSeq[i] : i \in 1..Len(LowerSeq)}
Digit == {"0","1","2","3","4","5","6","7","8","9"}

\* str.lower() on one character
LowerChar(c) ==
    IF \E i \in 1..Len(UpperSeq) : UpperSeq[i] = c
    THEN LowerSeq[CHOOSE i \in 1..Len(UpperSeq) : UpperSeq[i] = c]
    ELSE c

\* str.lower()
StrLower(s) == [i \in 1..Len(s) |-> LowerChar(s[i])]

\* the string p occurs in s at position i (1-based)
OccursAt(s, p, i) ==
    /\ i >= 1
    /\ i - 1 + Len(p) <= Len(s)
    /\ \A k \in 1..Len(p) : s[i - 1 + k] = p[k]

\* the number of consecutive digits of s from position i on
RECURSIVE DigitRun(_, _)
DigitRun(s, i) ==
    IF i <= Len(s) /\ s[i] \in Digit THEN 1 + DigitRun(s, i + 1) ELSE 0

\* str.rfind("."), 1-based, 0 when there is no dot
RECURSIVE RFindDot(_, _)
RFindDot(s, i) ==
    IF i = 0 THEN 0 ELSE IF s[i] = "." THEN i ELSE RFindDot(s, i - 1)

(***************************************************************************)
(* yarl.URL, as far as the crawler reads it: scheme, host and the path     *)
(* segments after the root. A trailing "/" is a final empty segment.       *)
(***************************************************************************)
RootPart == <<"/">>

\* URL.parts
Parts(url) == <<RootPart>> \o url.path

\* URL.name: the last path segment, "" for the bare root
Name(url) == IF url.path = <<>> THEN <<>> ELSE url.path[Len(url.path)]

\* URL.suffix: name[i:] for the last dot i with 0 < i < len(name) - 1
Suffix(url) ==
    LET name == Name(url)
        j    == RFindDot(name, Len(name))
    IN  IF j > 1 /\ j < Len(name) THEN SubSeq(name, j, Len(name)) ELSE <<>>

\* URL.with_host
WithHost(url, h) == [url EXCEPT !.host = h]

\* base / seg1 / seg2
Div2(base, s1, s2) == [scheme |-> base.scheme, host |-> base.host, path |-> <<s1, s2>>]

(***************************************************************************)
(* BunkrrCrawler.__init__                                                  *)
(***************************************************************************)
BunkrrSu == <<"b","u","n","k","r","r",".","s","u">>
primary_base_domain == [scheme |-> "https", host |-> BunkrrSu, path |-> <<>>]

(***************************************************************************)
(* FILE_FORMATS of cyberdrop_dl.utils.utilities                            *)
(***************************************************************************)
ImageFormats == { <<".","j","p","g">>, <<".","p","n","g">>, <<".","g","i","f">> }
VideoFormats == { <<".","m","p","4">>, <<".","m","k","v">> }

(***************************************************************************)
(* get_stream_link                                                         *)
(***************************************************************************)
CdnGroup1 == { <<"m","e","d","i","a","-","f","i","l","e","s">>,
               <<"c","d","n">>,
               <<"c">>,
               <<"p","i","z","z","a">>,
               <<"c","d","n","-","b","u","r","g","e","r">> }
CdnGroup2 == { <<"b","i","g","-","t","a","c","o","-">>,
               <<"c","d","n","-","p","i","z","z","a">>,
               <<"c","d","n","-","m","e","a","t","b","a","l","l","s">>,
               <<"c","d","n","-","m","i","l","k","s","h","a","k","e">> }
RedirStr == <<"r","e","d","i","r">>
DotBunk  == <<".","b","u","n","k">>
CdnStr   == <<"c","d","n">>

\* re.match(cdn_possibilities, host): some parse of the whole host by the pattern
\*   ^(?:(?:G1[0-9]{0,2})|(?:G2[0-9]{0,2}(?:redir)?))\.bunkr?\.[a-z]{2,3}$
CdnMatch(h) ==
    \E grp \in 1..2 :
      \E p \in (IF grp = 1 THEN CdnGroup1 ELSE CdnGroup2) :
        \E nd \in 0..2 :
          \E rd \in (IF grp = 1 THEN {0} ELSE {0, 1}) :
            \E r \in 0..1 :
              \E nt \in 2..3 :
                LET iDigits == Len(p) + 1
                    iRedir  == iDigits + nd
                    iBunk   == iRedir + rd * Len(RedirStr)
                    iR      == iBunk + Len(DotBunk)
                    iDot    == iR + r
                    iTld    == iDot + 1
                IN  /\ Len(h) = iTld - 1 + nt
                    /\ OccursAt(h, p, 1)
                    /\ \A k \in iDigits..(iRedir - 1) : h[k] \in Digit
                    /\ rd = 1 => OccursAt(h, RedirStr, iRedir)
                    /\ OccursAt(h, DotBunk, iBunk)
                    /\ r = 1 => h[iR] = "r"
                    /\ h[iDot] = "."
                    /\ \A k \in iTld..Len(h) : h[k] \in Lower

\* as SubCdnToI, with the replacement "i." that drops the captured digits
SubCdnToINoDigits(h) ==
    LET k == DigitRun(h, Len(CdnStr) + 1)
    IN  IF /\ OccursAt(h, CdnStr, 1)
           /\ Len(CdnStr) + k + 1 <= Len(h)
           /\ h[Len(CdnStr) + k + 1] = "."
        THEN <<"i">> \o SubSeq(h, Len(CdnStr) + k + 1, Len(h))
        ELSE h

\* re.sub(r"^cdn(\d*)\.", r"i\1.", host)
SubCdnToI(h) ==
    LET k == DigitRun(h, Len(CdnStr) + 1)
    IN  IF /\ OccursAt(h, CdnStr, 1)
           /\ Len(CdnStr) + k + 1 <= Len(h)
           /\ h[Len(CdnStr) + k + 1] = "."
        THEN <<"i">> \o SubSeq(h, Len(CdnStr) + 1, Len(h))
        ELSE h

\* as get_stream_link, with the extension compared without .lower()
get_stream_link_no_lower(url) ==
    IF ~CdnMatch(url.host) THEN url
    ELSE LET ext == Suffix(url)
         IN  IF ext = <<>> THEN url
             ELSE IF ext \in ImageFormats THEN WithHost(url, SubCdnToI(url.host))
             ELSE IF ext \in VideoFormats
                  THEN Div2(primary_base_domain, <<"v">>, Parts(url)[Len(Parts(url))])
                  ELSE Div2(primary_base_domain, <<"d">>, Parts(url)[Len(Parts(url))])

\* as get_stream_link, with the video or other file looked up under /v or /d of
\* the host and path it came with
get_stream_link_keeping_host(url) ==
    IF ~CdnMatch(url.host) THEN url
    ELSE LET ext == StrLower(Suffix(url))
         IN  IF ext = <<>> THEN url
             ELSE IF ext \in ImageFormats THEN WithHost(url, SubCdnToI(url.host))
             ELSE IF ext \in VideoFormats
                  THEN [url EXCEPT !.path = << <<"v">> >> \o @]
                  ELSE [url EXCEPT !.path = << <<"d">> >> \o @]

get_stream_link(url) ==
    IF ~CdnMatch(url.host) THEN url
    ELSE LET ext == StrLower(Suffix(url))
         IN  IF ext = <<>> THEN url
             ELSE IF ext \in ImageFormats THEN WithHost(url, SubCdnToI(url.host))
             ELSE IF ext \in VideoFormats
                  THEN Div2(primary_base_domain, <<"v">>, Parts(url)[Len(Parts(url))])
                  ELSE Div2(primary_base_domain, <<"d">>, Parts(url)[Len(Parts(url))])

(***************************************************************************)
(* sanitize_folder of cyberdrop_dl.utils.utilities: characters illegal in  *)
(* a path segment are stripped and redundant whitespace is collapsed        *)
(***************************************************************************)
IllegalChars == {"/", "\\", "*", "?", ":", "<", ">", "|"}

\* drop the illegal characters
StripIllegal(s) == SelectSeq(s, LAMBDA c : c \notin IllegalChars)

\* one blank for every run of blanks, none at either end
RECURSIVE CollapseBlanks(_)
CollapseBlanks(s) ==
    IF s = <<>> THEN <<>>
    ELSE IF Head(s) = " " /\ (Len(s) = 1 \/ s[2] = " ") THEN CollapseBlanks(Tail(s))
    ELSE <<Head(s)>> \o CollapseBlanks(Tail(s))

\* str.strip() of blanks
RECURSIVE Strip(_)
Strip(s) ==
    IF s = <<>> THEN <<>>
    ELSE IF Head(s) = " " THEN Strip(Tail(s))
    ELSE IF s[Len(s)] = " " THEN Strip(SubSeq(s, 1, Len(s) - 1))
    ELSE s

sanitize_folder(title) == Strip(CollapseBlanks(StripIllegal(title)))

(***************************************************************************)
(* ScrapeItem                                                              *)
(***************************************************************************)
\* ScrapeItem.__init__
ScrapeItem(url, parent_title, part_of_album, possible_datetime, retry, retry_path) ==
    [url |-> url, parent_title |-> parent_title, part_of_album |-> part_of_album,
     possible_datetime |-> possible_datetime, retry |-> retry, retry_path |-> retry_path]

\* "not title": None and the empty string are falsy
Falsy(x) == x = NoneStr \/ x = <<>>

\* as add_to_parent_title, without the test of self.retry
add_to_parent_title_ignoring_retry(self, title) ==
    IF Falsy(title) THEN self
    ELSE LET t == sanitize_folder(title)
         IN  [self EXCEPT !.parent_title =
                 IF ~Falsy(self.parent_title) THEN self.parent_title \o <<"/">> \o t ELSE t]

\* ScrapeItem.add_to_parent_title: the item after the call
add_to_parent_title(self, title) ==
    IF Falsy(title) \/ self.retry THEN self
    ELSE LET t == sanitize_folder(title)
         IN  [self EXCEPT !.parent_title =
                 IF ~Falsy(self.parent_title) THEN self.parent_title \o <<"/">> \o t ELSE t]

(***************************************************************************)
(* SpecTitle: add_to_parent_title called repeatedly on one ScrapeItem      *)
(***************************************************************************)
MaxTitleLen == 6

TitleArgs ==
    { NoneStr, <<>>, <<"c">>, <<"c","*","d">>, <<" ","c"," "," ","d"," ">>, <<"/">>, <<"e","/","f">> }

TitleUrls ==
    { [scheme |-> "https", host |-> BunkrrSu, path |-> << <<"a">>, <<"x">> >>] }

TitleItems ==
    { ScrapeItem(u, pt, poa, dt, r, rp) :
        u \in TitleUrls, pt \in { <<>>, <<"o">>, <<"o","/","p">> }, poa \in BOOLEAN,
        dt \in {<<>>, <<0>>}, r \in BOOLEAN, rp \in {None, "retry/path"} }

InitTitle ==
    /\ t_item \in TitleItems
    /\ t_prev = <<>>
    /\ t_arg = NoneStr
    /\ IdleLink
    /\ IdlePipe
    /\ IdleLimiter
    /\ IdleDate

\* one call t_item.add_to_parent_title(title)
AddToParentTitleCall(title) ==
    /\ Len(t_item.parent_title) <= MaxTitleLen
    /\ t_prev' = <<t_item>>
    /\ t_arg' = title
    /\ t_item' = add_to_parent_title(t_item, title)
    /\ UNCHANGED <<linkVars, pipeVars, limiterVars, dateVars>>

NextTitle == \E title \in TitleArgs : AddToParentTitleCall(title)

SpecTitle == InitTitle /\ [][NextTitle]_vars

(***************************************************************************)
(* SpecLink: get_stream_link applied to a URL drawn from a family of hosts *)
(* and paths                                                               *)
(***************************************************************************)
MaxDigits == 3
MaxLinkCalls == 2

RECURSIVE DigitStrings(_)
DigitStrings(n) ==
    IF n = 0 THEN { <<>> }
    ELSE DigitStrings(n - 1) \cup
         { <<d>> \o s : d \in {"7"}, s \in {t \in DigitStrings(n - 1) : Len(t) = n - 1} }

HostPrefixes ==
    CdnGroup1 \cup CdnGroup2 \cup
    { <<"i">>, <<"w","w","w">>, <<"c","d","n","-">>, <<"x","c","d","n">> }
HostRedirs == { <<>>, RedirStr }
HostBunks  == { <<".","b","u","n","k","r">>, DotBunk, <<".","b","u","n","k","r","r">> }
HostTlds   == { <<".","s","u">>, <<".","s","i","t">>, <<".","s">>, <<".","s","i","t","e">> }

LinkHosts ==
    { p \o d \o rd \o b \o t :
        p \in HostPrefixes, d \in DigitStrings(MaxDigits), rd \in HostRedirs,
        b \in HostBunks, t \in HostTlds }
    \cup { BunkrrSu, <<"e","x",".","c","o","m">> }

LinkNames ==
    { <<"x",".","j","p","g">>, <<"x",".","P","n","G">>, <<"x",".","m","p","4">>,
      <<"x",".","M","K","V">>, <<"x",".","z","i","p">>, <<"x">>, <<".","j","p","g">>,
      <<"x",".">>, <<"a",".","b",".","g","i","f">>, <<"a">>, <<"v">> }

LinkPaths ==
    { <<>> } \cup { <<n>> : n \in LinkNames }
    \cup { <<<<"a">>, n>> : n \in { <<"x">>, <<"x",".","m","p","4">> } }
    \cup { <<<<"v">>, n>> : n \in { <<"x",".","j","p","g">> } }
    \cup { <<n, <<>> >> : n \in { <<"x",".","m","p","4">> } }

LinkUrls ==
    { [scheme |-> s, host |-> h, path |-> p] :
        s \in {"https", "http"}, h \in LinkHosts, p \in LinkPaths }

InitLink ==
    /\ link_url \in LinkUrls
    /\ link_out = <<>>
    /\ IdleTitle
    /\ IdlePipe
    /\ IdleLimiter
    /\ IdleDate

\* one call of get_stream_link(link_url)
GetStreamLinkCall ==
    /\ Len(link_out) < MaxLinkCalls
    /\ link_out' = Append(link_out, get_stream_link(link_url))
    /\ UNCHANGED <<link_url, titleVars, pipeVars, limiterVars, dateVars>>

NextLink == GetStreamLinkCall

SpecLink == InitLink /\ [][NextLink]_vars

(***************************************************************************)
(* Cookie priming: set_cookies                                             *)
(***************************************************************************)
\* the configuration keys in the order set_cookies reads them, and their cookies
ConfigKeys  == <<"bunkrr_ddg1", "bunkrr_ddg2", "bunkrr_ddgid">>
CookieNames == <<"__ddg1_", "__ddg2_", "__ddgid_">>
CookieNameSet == {CookieNames[k] : k \in 1..Len(CookieNames)}

\* a key the mapping does not have; "" is the empty value
Absent == "<absent>"
ConfigValues == {Absent, "", "token"}
AllConfigs == [{ConfigKeys[k] : k \in 1..Len(ConfigKeys)} -> ConfigValues]
\* the configurations drawn: at most one key is missing or empty
Configs ==
    { cfg \in AllConfigs : Cardinality({k \in DOMAIN cfg : cfg[k] # "token"}) <= 1 }

\* cookies.update_cookies({name: value}, response_url=ddos_guard_domain)
update_cookies(jar, name, value) ==
    [jar EXCEPT !.cookies[name] = <<value>>, !.updates[name] = @ + 1]

\* the statements of set_cookies from the k-th "if" on: the store afterwards, and
\* whether the subscript of a missing key raised KeyError
RECURSIVE PrimeFrom(_, _, _)
PrimeFrom(k, jar, cfg) ==
    IF k > Len(ConfigKeys) THEN [jar EXCEPT !.raised = FALSE]
    ELSE IF cfg[ConfigKeys[k]] = Absent THEN [jar EXCEPT !.raised = TRUE]
    ELSE IF cfg[ConfigKeys[k]] # ""
         THEN PrimeFrom(k + 1, update_cookies(jar, CookieNames[k], cfg[ConfigKeys[k]]), cfg)
         ELSE PrimeFrom(k + 1, jar, cfg)

\* set_cookies: the flag and the store after the call, and whether it raised
set_cookies(flag, jar, cfg) ==
    IF flag THEN [cookies_set |-> TRUE, cookies |-> jar.cookies, updates |-> jar.updates,
                  raised |-> FALSE]
    ELSE LET r == PrimeFrom(1, [cookies |-> jar.cookies, updates |-> jar.updates,
                                raised |-> FALSE], cfg)
         IN  [cookies_set |-> ~r.raised, cookies |-> r.cookies, updates |-> r.updates,
              raised |-> r.raised]

(***************************************************************************)
(* parse_datetime. A date text is a sequence of characters; strptime takes *)
(* it apart by the format "%H:%M:%S %d/%m/%Y", and timegm counts the       *)
(* seconds as the calendar module does, from the date's proleptic          *)
(* Gregorian ordinal.                                                      *)
(***************************************************************************)
DigitSeq == <<"0","1","2","3","4","5","6","7","8","9">>

DigitVal(c) == CHOOSE i \in 0..9 : DigitSeq[i + 1] = c

\* the number written by the n digits of s from position i on
RECURSIVE NumAt(_, _, _)
NumAt(s, i, n) ==
    IF n = 0 THEN 0 ELSE NumAt(s, i, n - 1) * 10 + DigitVal(s[i + n - 1])

\* s has n digits from position i on
DigitsAt(s, i, n) == \A k \in i..(i + n - 1) : k <= Len(s) /\ s[k] \in Digit

IsLeap(y) == (y % 4 = 0 /\ y % 100 # 0) \/ y % 400 = 0

DaysInMonth(y, m) ==
    IF m = 2 THEN (IF IsLeap(y) THEN 29 ELSE 28)
    ELSE IF m \in {4, 6, 9, 11} THEN 30 ELSE 31

\* the text has the shape of the format "%H:%M:%S %d/%m/%Y", every field written
\* with all its digits
MatchesFormat(s) ==
    /\ Len(s) = 19
    /\ DigitsAt(s, 1, 2) /\ s[3] = ":" /\ DigitsAt(s, 4, 2) /\ s[6] = ":"
    /\ DigitsAt(s, 7, 2) /\ s[9] = " "
    /\ DigitsAt(s, 10, 2) /\ s[12] = "/" /\ DigitsAt(s, 13, 2) /\ s[15] = "/"
    /\ DigitsAt(s, 16, 4)

\* the fields strptime reads with the format "%H:%M:%S %d/%m/%Y"
Strptime(s) ==
    [H |-> NumAt(s, 1, 2), M |-> NumAt(s, 4, 2), S |-> NumAt(s, 7, 2),
     d |-> NumAt(s, 10, 2), m |-> NumAt(s, 13, 2), Y |-> NumAt(s, 16, 4)]

\* as Strptime, with the format "%H:%M:%S %m/%d/%Y"
StrptimeMonthFirst(s) ==
    [H |-> NumAt(s, 1, 2), M |-> NumAt(s, 4, 2), S |-> NumAt(s, 7, 2),
     d |-> NumAt(s, 13, 2), m |-> NumAt(s, 10, 2), Y |-> NumAt(s, 16, 4)]

\* the fields are those of a datetime
ValidFields(t) ==
    /\ t.H \in 0..23 /\ t.M \in 0..59 /\ t.S \in 0..59
    /\ t.Y \in 1..9999 /\ t.m \in 1..12
    /\ t.d \in 1..DaysInMonth(t.Y, t.m)

\* datetime.datetime.strptime(date, "%H:%M:%S %d/%m/%Y") succeeds (else ValueError)
StrptimeOk(s) == MatchesFormat(s) /\ ValidFields(Strptime(s))

\* days before January 1st of year y, counted from 0001-01-01
DaysBeforeYearOrdinal(y) ==
    (y - 1) * 365 + ((y - 1) \div 4) - ((y - 1) \div 100) + ((y - 1) \div 400)

\* days of year y before the first day of month m
DaysBeforeMonthTable == <<0, 31, 59, 90, 120, 151, 181, 212, 243, 273, 304, 334>>

DaysBeforeMonthOrdinal(y, m) ==
    DaysBeforeMonthTable[m] + (IF m > 2 /\ IsLeap(y) THEN 1 ELSE 0)

\* date(1970, 1, 1).toordinal()
EpochOrdinal == DaysBeforeYearOrdinal(1970) + 1

\* calendar.timegm(date.timetuple())
timegm(t) ==
    LET days == DaysBeforeYearOrdinal(t.Y) + DaysBeforeMonthOrdinal(t.Y, t.m) + 1
                    - EpochOrdinal + t.d - 1
    IN  ((days * 24 + t.H) * 60 + t.M) * 60 + t.S

\* as parse_datetime, reading the month before the day
parse_datetime_month_first(date) == timegm(StrptimeMonthFirst(date))

\* parse_datetime(date), for a text strptime accepts
parse_datetime(date) == timegm(Strptime(date))

TwoDigits(n) == <<DigitSeq[(n \div 10) + 1], DigitSeq[(n % 10) + 1]>>

FourDigits(n) == TwoDigits(n \div 100) \o TwoDigits(n % 100)

\* the text HH:MM:SS DD/MM/YYYY of six numbers
DateText(H, M, S, d, m, Y) ==
    TwoDigits(H) \o <<":">> \o TwoDigits(M) \o <<":">> \o TwoDigits(S) \o <<" ">>
        \o TwoDigits(d) \o <<"/">> \o TwoDigits(m) \o <<"/">> \o FourDigits(Y)

(***************************************************************************)
(* get_filename_and_ext of cyberdrop_dl.utils.utilities                    *)
(***************************************************************************)
\* no recognized extension: NoExtensionFailure
NoExtension(name) ==
    LET j == RFindDot(name, Len(name)) IN j = 0 \/ j = Len(name)

\* (filename, ext) for a name that has an extension
FilenameAndExt(name) ==
    LET j == RFindDot(name, Len(name))
        ext == StrLower(SubSeq(name, j, Len(name)))
    IN  [filename |-> SubSeq(name, 1, j - 1) \o ext, ext |-> ext]

(***************************************************************************)
(* The pages get_BS4 can return                                            *)
(***************************************************************************)
MaxEntries == 2

RECURSIVE SeqsUpTo(_, _)
SeqsUpTo(S, n) ==
    IF n = 0 THEN { <<>> }
    ELSE SeqsUpTo(S, n - 1) \cup
         { Append(q, x) : q \in {t \in SeqsUpTo(S, n - 1) : Len(t) = n - 1}, x \in S }

CdnHost   == <<"c","d","n","7",".","b","u","n","k","r",".","s","u">>
MediaHost == <<"m","e","d","i","a","-","f","i","l","e","s",".","b","u","n","k","r",".","r","u">>

\* href values: rel is link.startswith("/"), and then only the path is given
RelHref(path) == [rel |-> TRUE, scheme |-> "", host |-> <<>>, path |-> path]
AbsHref(url)  == [rel |-> FALSE, scheme |-> url.scheme, host |-> url.host, path |-> url.path]

Date1 == DateText(14, 30, 0, 5, 3, 2021)
Date2 == DateText(23, 59, 59, 29, 2, 2024)
BadDate == DateText(0, 0, 0, 31, 2, 2021)

\* a listing entry: file is <<the a element>> or <<>> (select_one found none), the a
\* element's href is <<value>> or <<>>; date is <<text of the p element>> or <<>>
Entry(file, date) == [file |-> file, date |-> date]
Anchor(href) == [href |-> href]

EntryVideo   == Entry(<<Anchor(<<RelHref(<< <<"v">>, <<"x",".","m","p","4">> >>)>>)>>, <<Date1>>)
EntryImage   == Entry(<<Anchor(<<AbsHref([scheme |-> "https", host |-> CdnHost,
                                            path |-> << <<"y",".","j","p","g">> >>])>>)>>,
                      <<Date2>>)
EntryNoDate  == Entry(<<Anchor(<<RelHref(<< <<"d">>, <<"z",".","z","i","p">> >>)>>)>>, <<>>)
EntryBadDate == Entry(<<Anchor(<<RelHref(<< <<"v">>, <<"w",".","m","p","4">> >>)>>)>>, <<BadDate>>)
EntryNoFile  == Entry(<<>>, <<Date1>>)

Entries == {EntryVideo, EntryImage, EntryNoDate, EntryBadDate, EntryNoFile}

\* the h1 title element: <<its child nodes>>, or <<>> when select_one found none;
\* a node is a text or a span
TextNode(text) == [span |-> FALSE, text |-> text]
SpanNode(text) == [span |-> TRUE, text |-> text]
TitleElems ==
    { <<>>,
      << << TextNode(<<" ","M","y",":","A"," ">>), SpanNode(<<"1","2">>) >> >> }

AlbumPages ==
    { [title |-> t, card_listings |-> es] : t \in TitleElems, es \in SeqsUpTo(Entries, MaxEntries) }

FileLink    == [scheme |-> "https", host |-> MediaHost, path |-> << <<"f",".","M","P","4">> >>]
FileLinkRaw == [scheme |-> "https", host |-> MediaHost, path |-> << <<"f">> >>]
\* the anchors a file page's selector finds
FilePages ==
    { <<>>, <<Anchor(<<>>)>>, <<Anchor(<<AbsHref(FileLink)>>)>>,
      <<Anchor(<<>>), Anchor(<<AbsHref(FileLinkRaw)>>)>> }

\* for elem in title.find_all("span"): elem.decompose(); title.get_text()
RECURSIVE GetTextWithoutSpans(_)
GetTextWithoutSpans(nodes) ==
    IF nodes = <<>> THEN <<>>
    ELSE (IF Head(nodes).span THEN <<>> ELSE Head(nodes).text)
         \o GetTextWithoutSpans(Tail(nodes))

\* Crawler.create_title(title, album_id, None): the title, with the album id
\* appended when the configuration asks for it
CreateTitleResults(title, album_id) == { title, title \o <<" ">> \o album_id }

\* URL(link), after "https://" + scrape_item.url.host + link for a relative link
HrefUrl(item, href) ==
    IF href.rel THEN [scheme |-> "https", host |-> item.url.host, path |-> href.path]
    ELSE [scheme |-> href.scheme, host |-> href.host, path |-> href.path]

\* the statements of the loop body raise for this entry
EntryRaises(e) ==
    \/ e.date = <<>>                    \* None.text
    \/ ~StrptimeOk(e.date[1])           \* strptime: ValueError
    \/ e.file = <<>>                    \* None.get
    \/ e.file[1].href = <<>>            \* None.startswith

\* the ScrapeItem the loop body puts on the queue for this entry
AlbumChild(item, e) ==
    ScrapeItem(get_stream_link(HrefUrl(item, e.file[1].href[1])), item.parent_title,
               TRUE, <<parse_datetime(e.date[1])>>, FALSE, None)

(***************************************************************************)
(* request_limiter = AsyncLimiter(10, 1): a leaky bucket of capacity       *)
(* max_rate that leaks max_rate units per time_period. Time advances in    *)
(* ticks of 1/TicksPerSecond seconds, and the bucket's level, a float in   *)
(* the library, is counted in units of 1/TicksPerSecond.                   *)
(***************************************************************************)
MaxRate == 10
TimePeriod == 1
TicksPerSecond == 5

\* _rate_per_sec = max_rate / time_period
RatePerSec == MaxRate \div TimePeriod

\* amount = 1, in the units of the level
OneFetch == TicksPerSecond

\* has_capacity(amount = 1), after _leak(): self._level + amount <= self.max_rate
HasCapacity(lvl) == lvl + OneFetch <= MaxRate * TicksPerSecond

\* _leak() over one tick: max(self._level - elapsed * self._rate_per_sec, 0)
Leak(lvl) == IF lvl > RatePerSec THEN lvl - RatePerSec ELSE 0

\* the ticks of one rate window
WindowTicks == TimePeriod * TicksPerSecond

NoFetches == [i \in 1..WindowTicks |-> 0]

\* one more page fetch started in the current tick
Started(r) == [r EXCEPT ![1] = @ + 1]

\* a new tick begins
Shifted(r) == <<0>> \o SubSeq(r, 1, Len(r) - 1)

RECURSIVE SumSeq(_)
SumSeq(q) == IF q = <<>> THEN 0 ELSE Head(q) + SumSeq(Tail(q))

(***************************************************************************)
(* fetch and the handlers. Each fetch call c runs as a task of its own;    *)
(* call[c].pc is the await it stands at:                                   *)
(*   idle      not called yet                                              *)
(*   added     add_task has returned                                       *)
(*   limiter   in a handler, at "async with self.request_limiter"          *)
(*   fetching  inside the limiter's scope, awaiting get_BS4                *)
(*   listing   in album's loop over card_listings, before entry idx        *)
(*   handled   the handler has returned, before remove_task                *)
(*   done      fetch has returned                                          *)
(*   raised    an exception has left fetch                                 *)
(* The locals of a call are gone once the call has ended.                  *)
(***************************************************************************)
MaxCalls == 3

Calls == 1..MaxCalls

NoItem == ScrapeItem(None, <<>>, FALSE, <<>>, FALSE, None)

NewCall ==
    [pc |-> "idle", scrape_item |-> NoItem, task_id |-> 0, handler |-> "none",
     card_listings |-> <<>>, idx |-> 0, puts |-> <<>>, link |-> <<>>, handed |-> <<>>,
     failed |-> FALSE]

SiteUrl(path) == [scheme |-> "https", host |-> BunkrrSu, path |-> path]

RootVideo ==
    ScrapeItem([scheme |-> "https", host |-> CdnHost, path |-> << <<"x",".","m","p","4">> >>],
               <<>>, FALSE, <<>>, FALSE, None)
RootOther == ScrapeItem(SiteUrl(<< <<"d">>, <<"z">> >>), <<"t">>, FALSE, <<>>, FALSE, None)
\* a file on a CDN host, under a directory named a
RootCdnOther ==
    ScrapeItem([scheme |-> "https", host |-> MediaHost,
                path |-> << <<"a">>, <<"z",".","Z","I","P">> >>],
               <<>>, FALSE, <<>>, FALSE, None)
RootAlbums ==
    { ScrapeItem(SiteUrl(<< <<"a">>, <<"A","b">> >>), <<>>, FALSE, <<>>, FALSE, None),
      ScrapeItem(SiteUrl(<< <<"a">>, <<"A","b">> >>), <<"o","l","d">>, FALSE, <<>>, TRUE, "retry/path") }
\* the queue the run starts with: a first item of any kind, then a file page
RootQueues == { <<r, RootOther>> : r \in RootAlbums \cup {RootVideo, RootOther, RootCdnOther} }

Init ==
    /\ config \in Configs
    /\ cookies_set = FALSE
    /\ cookies = [n \in CookieNameSet |-> <<>>]
    /\ updates = [n \in CookieNameSet |-> 0]
    /\ tasks = {}
    /\ addCount = 0
    /\ removeCount = 0
    /\ scraper_queue \in RootQueues
    /\ call = [c \in Calls |-> NewCall]
    /\ level = 0
    /\ recent = NoFetches
    /\ lim_waiting = 0
    /\ IdleLink
    /\ IdleTitle
    /\ IdleDate

\* if "a" in url.parts ... elif "v" in url.parts ... else
Dispatch(url) ==
    IF \E i \in 1..Len(Parts(url)) : Parts(url)[i] = <<"a">> THEN "album"
    ELSE IF \E i \in 1..Len(Parts(url)) : Parts(url)[i] = <<"v">> THEN "video"
    ELSE "other"

\* error_handling_wrapper: the exception is logged, the item is marked failed and
\* the handler returns normally
Caught(c) == [call EXCEPT ![c].pc = "handled", ![c].failed = TRUE]

\* the orchestrator takes the next item and calls fetch(item); fetch, line 33:
\* task_id = await add_task(url)
FetchAddTask(c) ==
    /\ call[c].pc = "idle"
    /\ \A d \in Calls : d < c => call[d].pc # "idle"
    /\ scraper_queue # <<>>
    /\ scraper_queue' = Tail(scraper_queue)
    /\ addCount' = addCount + 1
    /\ tasks' = tasks \cup {addCount + 1}
    /\ call' = [call EXCEPT ![c].pc = "added", ![c].scrape_item = Head(scraper_queue),
                            ![c].task_id = addCount + 1]
    /\ UNCHANGED <<cookieVars, removeCount, limiterVars, linkVars, titleVars, dateVars>>

\* as FetchPrepare, with the handler chosen from the URL as the item came with it
FetchPrepareDispatchFirst(c) ==
    /\ call[c].pc = "added"
    /\ LET url == get_stream_link(call[c].scrape_item.url)
           r   == set_cookies(cookies_set, [cookies |-> cookies, updates |-> updates], config)
       IN  /\ cookies_set' = r.cookies_set
           /\ cookies' = r.cookies
           /\ updates' = r.updates
           /\ call' = IF r.raised THEN [call EXCEPT ![c] = [NewCall EXCEPT !.pc = "raised"]]
                      ELSE
                      [call EXCEPT ![c].scrape_item.url = url,
                                   ![c].pc = "limiter",
                                   ![c].handler = Dispatch(call[c].scrape_item.url)]
    /\ UNCHANGED <<config, trackerVars, scraper_queue, limiterVars, linkVars, titleVars, dateVars>>

\* as FetchPrepare, without "await self.set_cookies()"
FetchPrepareWithoutCookies(c) ==
    /\ call[c].pc = "added"
    /\ LET url == get_stream_link(call[c].scrape_item.url)
       IN  call' = [call EXCEPT ![c].scrape_item.url = url,
                                ![c].pc = "limiter",
                                ![c].handler = Dispatch(url)]
    /\ UNCHANGED <<cookieVars, trackerVars, scraper_queue, limiterVars, linkVars, titleVars, dateVars>>

\* fetch, lines 34-43: get_stream_link, set_cookies, and the choice of the handler,
\* up to the handler's "async with self.request_limiter"
FetchPrepare(c) ==
    /\ call[c].pc = "added"
    /\ LET url == get_stream_link(call[c].scrape_item.url)
           r   == set_cookies(cookies_set, [cookies |-> cookies, updates |-> updates], config)
       IN  /\ cookies_set' = r.cookies_set
           /\ cookies' = r.cookies
           /\ updates' = r.updates
           /\ call' = IF r.raised THEN [call EXCEPT ![c] = [NewCall EXCEPT !.pc = "raised"]]
                      ELSE
                      [call EXCEPT ![c].scrape_item.url = url,
                                   ![c].pc = "limiter",
                                   ![c].handler = Dispatch(url)]
    /\ UNCHANGED <<config, trackerVars, scraper_queue, limiterVars, linkVars, titleVars, dateVars>>

\* album / video / other: async with self.request_limiter: ... get_BS4(domain, url);
\* the task goes on when the bucket has capacity, and the request is issued
HandlerRequest(c) ==
    /\ call[c].pc = "limiter"
    /\ HasCapacity(level)
    /\ level' = level + OneFetch
    /\ recent' = Started(recent)
    /\ call' = [call EXCEPT ![c].pc = "fetching"]
    /\ UNCHANGED <<cookieVars, trackerVars, scraper_queue, lim_waiting, linkVars, titleVars, dateVars>>

\* get_BS4 raises (network or HTTP failure)
PageFetchFails(c) ==
    /\ call[c].pc = "fetching"
    /\ call' = Caught(c)
    /\ UNCHANGED <<cookieVars, trackerVars, scraper_queue, limiterVars, linkVars, titleVars, dateVars>>

\* as AlbumPage, with the title merged also into an item that has retry set
AlbumPageMergingOnRetry(c) ==
    /\ call[c].pc = "fetching"
    /\ call[c].handler = "album"
    /\ \E page \in AlbumPages :
         LET item == call[c].scrape_item IN
         IF page.title = <<>> \/ Len(Parts(item.url)) < 3
         THEN call' = Caught(c)
         ELSE \E title \in CreateTitleResults(Strip(GetTextWithoutSpans(page.title[1])),
                                              Parts(item.url)[3]) :
                call' = [call EXCEPT ![c].scrape_item =
                                         add_to_parent_title_ignoring_retry(item, title),
                                     ![c].card_listings = page.card_listings,
                                     ![c].idx = 1,
                                     ![c].pc = IF page.card_listings = <<>>
                                               THEN "handled" ELSE "listing"]
    /\ UNCHANGED <<cookieVars, trackerVars, scraper_queue, limiterVars, linkVars, titleVars, dateVars>>

\* album, lines 52-59: the page has arrived; title, add_to_parent_title, card_listings
AlbumPage(c) ==
    /\ call[c].pc = "fetching"
    /\ call[c].handler = "album"
    /\ \E page \in AlbumPages :
         LET item == call[c].scrape_item IN
         IF page.title = <<>> \/ Len(Parts(item.url)) < 3
         THEN call' = Caught(c)       \* None.find_all, or parts[2] out of range
         ELSE \E title \in CreateTitleResults(Strip(GetTextWithoutSpans(page.title[1])),
                                              Parts(item.url)[3]) :
                call' = [call EXCEPT ![c].scrape_item = add_to_parent_title(item, title),
                                     ![c].card_listings = page.card_listings,
                                     ![c].idx = 1,
                                     ![c].pc = IF page.card_listings = <<>>
                                               THEN "handled" ELSE "listing"]
    /\ UNCHANGED <<cookieVars, trackerVars, scraper_queue, limiterVars, linkVars, titleVars, dateVars>>

\* as AlbumEntry, with the entry's file handed to handle_file as well
AlbumEntryAlsoHandsFile(c) ==
    /\ call[c].pc = "listing"
    /\ LET e    == call[c].card_listings[call[c].idx]
           item == call[c].scrape_item
       IN  IF EntryRaises(e)
           THEN /\ call' = Caught(c)
                /\ UNCHANGED scraper_queue
           ELSE /\ scraper_queue' = Append(scraper_queue, AlbumChild(item, e))
                /\ call' = [call EXCEPT ![c].puts = Append(@, AlbumChild(item, e)),
                                        ![c].handed = Append(@,
                                            [link |-> AlbumChild(item, e).url,
                                             scrape_item |-> item,
                                             filename |-> Name(AlbumChild(item, e).url),
                                             ext |-> Suffix(AlbumChild(item, e).url)]),
                                        ![c].idx = @ + 1,
                                        ![c].pc = IF call[c].idx = Len(call[c].card_listings)
                                                  THEN "handled" ELSE "listing"]
    /\ UNCHANGED <<cookieVars, trackerVars, limiterVars, linkVars, titleVars, dateVars>>

\* as AlbumEntry, with the children the call has enqueued taken back off the queue
\* when an entry fails
AlbumEntryRollingBack(c) ==
    /\ call[c].pc = "listing"
    /\ LET e    == call[c].card_listings[call[c].idx]
           item == call[c].scrape_item
       IN  IF EntryRaises(e)
           THEN /\ call' = [Caught(c) EXCEPT ![c].puts = <<>>]
                /\ scraper_queue' =
                       SelectSeq(scraper_queue,
                                 LAMBDA x : \A k \in 1..Len(call[c].puts) : call[c].puts[k] # x)
           ELSE /\ scraper_queue' = Append(scraper_queue, AlbumChild(item, e))
                /\ call' = [call EXCEPT ![c].puts = Append(@, AlbumChild(item, e)),
                                        ![c].idx = @ + 1,
                                        ![c].pc = IF call[c].idx = Len(call[c].card_listings)
                                                  THEN "handled" ELSE "listing"]
    /\ UNCHANGED <<cookieVars, trackerVars, limiterVars, linkVars, titleVars, dateVars>>

\* album, lines 60-68: one pass of the loop body
AlbumEntry(c) ==
    /\ call[c].pc = "listing"
    /\ LET e    == call[c].card_listings[call[c].idx]
           item == call[c].scrape_item
       IN  IF EntryRaises(e)
           THEN /\ call' = Caught(c)
                /\ UNCHANGED scraper_queue
           ELSE /\ scraper_queue' = Append(scraper_queue, AlbumChild(item, e))
                /\ call' = [call EXCEPT ![c].puts = Append(@, AlbumChild(item, e)),
                                        ![c].idx = @ + 1,
                                        ![c].pc = IF call[c].idx = Len(call[c].card_listings)
                                                  THEN "handled" ELSE "listing"]
    /\ UNCHANGED <<cookieVars, trackerVars, limiterVars, linkVars, titleVars, dateVars>>

\* as FilePageResult, without the except NoExtensionFailure branch
FilePageResultNoFallback(c, anchors) ==
    LET item == call[c].scrape_item IN
    IF anchors = <<>> \/ anchors[Len(anchors)].href = <<>>
    THEN Caught(c)
    ELSE LET link == HrefUrl(item, anchors[Len(anchors)].href[1])
         IN  IF NoExtension(Name(link))
             THEN [Caught(c) EXCEPT ![c].link = <<link>>]
             ELSE [call EXCEPT ![c].pc = "handled",
                               ![c].link = <<link>>,
                               ![c].handed = Append(@,
                                   [link |-> link, scrape_item |-> item,
                                    filename |-> FilenameAndExt(Name(link)).filename,
                                    ext |-> FilenameAndExt(Name(link)).ext])]

\* video / other, lines 75-83 and 90-98: the page has arrived; the last anchor, its
\* href (kept in the local link), filename and extension with the fallback,
\* handle_file
FilePageResult(c, anchors) ==
    LET item == call[c].scrape_item IN
    IF anchors = <<>> \/ anchors[Len(anchors)].href = <<>>
    THEN Caught(c)                    \* [-1] of an empty list, or URL(None)
    ELSE LET link == HrefUrl(item, anchors[Len(anchors)].href[1])
             name == IF NoExtension(Name(link)) THEN Name(item.url) ELSE Name(link)
         IN  IF NoExtension(name)     \* NoExtensionFailure of the fallback
             THEN [Caught(c) EXCEPT ![c].link = <<link>>]
             ELSE [call EXCEPT ![c].pc = "handled",
                               ![c].link = <<link>>,
                               ![c].handed = Append(@,
                                   [link |-> link, scrape_item |-> item,
                                    filename |-> FilenameAndExt(name).filename,
                                    ext |-> FilenameAndExt(name).ext])]

VideoPage(c) ==
    /\ call[c].pc = "fetching"
    /\ call[c].handler = "video"
    /\ \E anchors \in FilePages : call' = FilePageResult(c, anchors)
    /\ UNCHANGED <<cookieVars, trackerVars, scraper_queue, limiterVars, linkVars, titleVars, dateVars>>

OtherPage(c) ==
    /\ call[c].pc = "fetching"
    /\ call[c].handler = "other"
    /\ \E anchors \in FilePages : call' = FilePageResult(c, anchors)
    /\ UNCHANGED <<cookieVars, trackerVars, scraper_queue, limiterVars, linkVars, titleVars, dateVars>>

\* fetch, line 45: await remove_task(task_id)
FetchRemoveTask(c) ==
    /\ call[c].pc = "handled"
    /\ tasks' = tasks \ {call[c].task_id}
    /\ removeCount' = removeCount + 1
    /\ call' = [call EXCEPT ![c] = [NewCall EXCEPT !.pc = "done"]]
    /\ UNCHANGED <<cookieVars, addCount, scraper_queue, limiterVars, linkVars, titleVars, dateVars>>

\* time passes: the bucket leaks for one tick, the window of recent fetches moves on
Tick ==
    /\ level > 0 \/ recent # NoFetches
    /\ level' = Leak(level)
    /\ recent' = Shifted(recent)
    /\ UNCHANGED <<pipeVars, lim_waiting, linkVars, titleVars, dateVars>>

Next ==
    \/ \E c \in Calls :
        \/ FetchAddTask(c)
        \/ FetchPrepare(c)
        \/ HandlerRequest(c)
        \/ PageFetchFails(c)
        \/ AlbumPage(c)
        \/ AlbumEntry(c)
        \/ VideoPage(c)
        \/ OtherPage(c)
        \/ FetchRemoveTask(c)

Spec == Init /\ [][Next]_vars

(***************************************************************************)
(* SpecFair: a run that starts from one item on the queue, so that the     *)
(* root and the children of an album are at most 1 + MaxEntries items, one *)
(* fetch call each; some step is taken as long as one can be taken.        *)
(***************************************************************************)
SingleRootQueues == { <<r>> : r \in RootAlbums \cup {RootVideo, RootOther, RootCdnOther} }

InitFair ==
    /\ config \in Configs
    /\ cookies_set = FALSE
    /\ cookies = [n \in CookieNameSet |-> <<>>]
    /\ updates = [n \in CookieNameSet |-> 0]
    /\ tasks = {}
    /\ addCount = 0
    /\ removeCount = 0
    /\ scraper_queue \in SingleRootQueues
    /\ call = [c \in Calls |-> NewCall]
    /\ level = 0
    /\ recent = NoFetches
    /\ lim_waiting = 0
    /\ IdleLink
    /\ IdleTitle
    /\ IdleDate

SpecFair == InitFair /\ [][Next]_vars /\ WF_vars(Next)

(***************************************************************************)
(* SpecLimiter: MaxLimTasks handler tasks of one crawler instance stand at *)
(* "async with self.request_limiter" and go on to get_BS4 as the bucket    *)
(* lets them, while time passes. The tasks differ in nothing the limiter   *)
(* reads, so they are counted.                                             *)
(***************************************************************************)
MaxLimTasks == 21

InitLimiter ==
    /\ level = 0
    /\ recent = NoFetches
    /\ lim_waiting = MaxLimTasks
    /\ IdleLink
    /\ IdleTitle
    /\ IdlePipe
    /\ IdleDate

\* as LimitedPageFetch, without "async with self.request_limiter"
UnlimitedPageFetch ==
    /\ lim_waiting > 0
    /\ lim_waiting' = lim_waiting - 1
    /\ recent' = Started(recent)
    /\ UNCHANGED <<level, pipeVars, linkVars, titleVars, dateVars>>

\* album / video / other: async with self.request_limiter: ... get_BS4(domain, url),
\* by one of the waiting tasks
LimitedPageFetch ==
    /\ lim_waiting > 0
    /\ HasCapacity(level)
    /\ lim_waiting' = lim_waiting - 1
    /\ level' = level + OneFetch
    /\ recent' = Started(recent)
    /\ UNCHANGED <<pipeVars, linkVars, titleVars, dateVars>>

NextLimiter == LimitedPageFetch \/ Tick

SpecLimiter == InitLimiter /\ [][NextLimiter]_vars

(***************************************************************************)
(* SpecDate: parse_datetime as a function of its argument                  *)
(***************************************************************************)
DateHours   == {0, 14, 23}
DateMinutes == {0, 30, 59}
DateSeconds == {0, 59, 60}
DateDays    == {1, 5, 28, 29, 31}
DateMonths  == {1, 2, 3, 5, 12, 13}
DateYears   == {1969, 1970, 2000, 2021, 2024, 2037}

\* a text that does not have the format's separators
DashedDate == [i \in 1..19 |-> IF i \in {12, 15} THEN "-" ELSE Date1[i]]

DateTexts ==
    { DateText(H, M, S, d, m, Y) :
        H \in DateHours, M \in DateMinutes, S \in DateSeconds,
        d \in DateDays, m \in DateMonths, Y \in DateYears } \cup {DashedDate}

InitDate ==
    /\ date_text \in DateTexts
    /\ date_out = NotCalled
    /\ IdleLink
    /\ IdleTitle
    /\ IdlePipe
    /\ IdleLimiter

\* one call parse_datetime(date_text): the epoch seconds, or strptime's ValueError
ParseDatetimeCall ==
    /\ ~date_out.called
    /\ date_out' = IF StrptimeOk(date_text)
                   THEN [called |-> TRUE, raised |-> FALSE, value |-> parse_datetime(date_text)]
                   ELSE [called |-> TRUE, raised |-> TRUE, value |-> 0]
    /\ UNCHANGED <<date_text, linkVars, titleVars, pipeVars, limiterVars>>

NextDate == ParseDatetimeCall

SpecDate == InitDate /\ [][NextDate]_vars

(***************************************************************************)
(* Claims about get_stream_link (SpecLink)                                 *)
(***************************************************************************)
LinkExt == StrLower(Suffix(link_url))
LinkMatched == CdnMatch(link_url.host)

\* C9: every call of get_stream_link on the same URL returns the same result and
\* leaves the crawler's state as constructed; the result is the URL itself when
\* the host does not match the CDN pattern or the name has no extension, the
\* primary domain with path /v/<last segment> for a video extension, and the
\* primary domain with path /d/<last segment> for any other non-image extension.
C9_StreamLinkCases ==
    LET matched == LinkMatched
        ext     == LinkExt
    IN
    /\ cookies_set = FALSE
    /\ \A i \in 1..Len(link_out) :
         LET o == link_out[i] IN
         /\ o = link_out[1]
         /\ ~matched => o = link_url
         /\ (matched /\ ext = <<>>) => o = link_url
         /\ (matched /\ ext \in VideoFormats) =>
               /\ o.scheme = "https"
               /\ o.host = BunkrrSu
               /\ o.path = << <<"v">>, Name(link_url) >>
         /\ (matched /\ ext # <<>> /\ ext \notin VideoFormats /\ ext \notin ImageFormats) =>
               /\ o.scheme = "https"
               /\ o.host = BunkrrSu
               /\ o.path = << <<"d">>, Name(link_url) >>

\* C9 witness: two calls were made on a CDN URL /a/<name>.mp4-like with a video
\* extension written in upper case
C9_Witness ==
    /\ Len(link_out) = 2
    /\ LinkMatched
    /\ LinkExt \in VideoFormats
    /\ Suffix(link_url) # LinkExt

\* the host begins with "cdn" followed by a digit or the dot
IsPlainCdnHost(h) ==
    /\ OccursAt(h, CdnStr, 1)
    /\ Len(h) > Len(CdnStr)
    /\ h[Len(CdnStr) + 1] \in Digit \cup {"."}

\* C10 as stated: for every matching host and image extension the host prefix is
\* rewritten to the image-serving variant (i...) and the path is unchanged.
C10_Original ==
    \A i \in 1..Len(link_out) :
        (LinkExt \in ImageFormats /\ LinkMatched) =>
            /\ link_out[i].path = link_url.path
            /\ link_out[i].host # link_url.host
            /\ link_out[i].host[1] = "i"

\* C10 amended: for every matching host and image extension the path and scheme
\* are unchanged; a host cdn<digits>.<rest> becomes i<digits>.<rest>, and the host
\* of every other member of the family is left as it is.
C10_ImageRewrite ==
    \A i \in 1..Len(link_out) :
        (LinkExt \in ImageFormats /\ LinkMatched) =>
            /\ link_out[i].path = link_url.path
            /\ link_out[i].scheme = link_url.scheme
            /\ link_out[i].host =
                 IF IsPlainCdnHost(link_url.host)
                 THEN <<"i">> \o SubSeq(link_url.host, Len(CdnStr) + 1, Len(link_url.host))
                 ELSE link_url.host

\* C10 witness: a call was made on a cdn<digits> host with an image extension
C10_Witness ==
    /\ Len(link_out) >= 1
    /\ LinkMatched
    /\ LinkExt \in ImageFormats
    /\ IsPlainCdnHost(link_url.host)
    /\ link_url.host[Len(CdnStr) + 1] \in Digit

(***************************************************************************)
(* Claims about add_to_parent_title (SpecTitle)                            *)
(***************************************************************************)
\* C8: after a call add_to_parent_title(title), the item is unchanged when it has
\* retry = true or the title is falsy; otherwise its parent_title is
\* old + "/" + sanitize(title) for a non-empty old one and sanitize(title) for an
\* empty one, and no other field has changed.
C8_AddToParentTitle ==
    t_prev # <<>> =>
        LET old  == t_prev[1]
            noop == old.retry \/ t_arg = NoneStr \/ t_arg = <<>>
        IN  /\ noop => t_item = old
            /\ ~noop =>
                  /\ old.parent_title # <<>> =>
                        t_item.parent_title =
                            old.parent_title \o <<"/">> \o sanitize_folder(t_arg)
                  /\ old.parent_title = <<>> =>
                        t_item.parent_title = sanitize_folder(t_arg)
                  /\ \A f \in DOMAIN t_item \ {"parent_title"} : t_item[f] = old[f]

\* C8 witness: a non-retry item with a non-empty parent_title got a title appended
\* that the sanitizer had to change
C8_Witness ==
    /\ t_prev # <<>>
    /\ ~t_prev[1].retry
    /\ t_arg = <<" ","c"," "," ","d"," ">>
    /\ t_prev[1].parent_title = <<"o","/","p">>
    /\ t_item.parent_title = <<"o","/","p","/","c"," ","d">>

(***************************************************************************)
(* Claims about the request limiter (SpecLimiter)                          *)
(***************************************************************************)
\* C6 as stated: the page fetches started within any one second never exceed the
\* configured rate.
C6_Original == SumSeq(recent) <= MaxRate

\* C6 amended: page fetches are issued by tasks that have acquired the limiter; the
\* bucket's level never exceeds the configured rate, and the page fetches started
\* within any one second never exceed twice the configured rate (a burst of up to
\* the bucket's capacity, plus what leaks during that second).
C6_RateBound ==
    /\ level <= MaxRate * TicksPerSecond
    /\ SumSeq(recent) <= 2 * MaxRate

\* C6 witness: tasks are still waiting, a burst of max_rate fetches was started in
\* one tick, and more fetches than the configured rate were started within the
\* second that began with it
C6_Witness ==
    /\ lim_waiting > 0
    /\ recent[WindowTicks] = MaxRate
    /\ SumSeq(recent) > MaxRate

(***************************************************************************)
(* Claims about fetch, the handlers and cookie priming (Spec)              *)
(***************************************************************************)
\* every fetch call that was started has ended
AllEnded ==
    /\ addCount > 0
    /\ \A c \in Calls : call[c].pc \in {"idle", "done", "raised"}

\* C1 as stated: once all fetch calls have ended, also those that failed, as many
\* remove_task calls as add_task calls have been made and no task is registered.
C1_Balanced == AllEnded => (removeCount = addCount /\ tasks = {})

\* C2 as stated: no exception leaves a fetch call.
C2_NothingPropagates == \A c \in Calls : call[c].pc # "raised"

\* C3 as stated: update_cookies is called at most once for each cookie, over all
\* fetch calls on the instance.
C3_InjectedAtMostOnce == \A n \in CookieNameSet : updates[n] <= 1

\* some fetch call has run set_cookies
SetCookiesCalled == \E c \in Calls : call[c].pc \notin {"idle", "added"}

\* C4 as stated: whatever entries are missing or empty, set_cookies completes with
\* cookies_set true, exactly the non-empty entries injected and the others skipped.
C4_PartialPriming ==
    SetCookiesCalled =>
        /\ cookies_set
        /\ \A k \in 1..Len(ConfigKeys) :
              cookies[CookieNames[k]] =
                  IF config[ConfigKeys[k]] \in {Absent, ""} THEN <<>>
                  ELSE <<config[ConfigKeys[k]]>>

\* C5: no fetch call both puts ScrapeItems on the queue and hands a file to
\* handle_file; the album handler hands over no file, the video and other handlers
\* put nothing on the queue and call handle_file at most once.
C5_OneKindOfOutput ==
    \A c \in Calls :
        /\ ~(call[c].puts # <<>> /\ call[c].handed # <<>>)
        /\ Len(call[c].handed) <= 1
        /\ call[c].handler = "album" => call[c].handed = <<>>
        /\ call[c].handler \in {"video", "other"} => call[c].puts = <<>>

\* C5 witness: an album call has put two children on the queue and another call
\* has handed its one file to handle_file
C5_Witness ==
    \E c, d \in Calls :
        /\ call[c].pc = "handled" /\ call[c].handler = "album" /\ Len(call[c].puts) = 2
        /\ call[d].pc = "handled" /\ call[d].handler = "other" /\ Len(call[d].handed) = 1

\* a listing entry with a link, and with a date that parses if it has one
HasLinkAndOptionalDate(e) ==
    /\ e.file # <<>>
    /\ e.file[1].href # <<>>
    /\ e.date # <<>> => StrptimeOk(e.date[1])

\* C7 as stated: when the album handler has returned for a page whose entries all
\* have a link, each entry has one child on the queue, in order, with
\* part_of_album, the album item's parent_title and the entry's timestamp, or no
\* timestamp for an entry without a date element.
C7_OneChildPerEntry ==
    \A c \in Calls :
        ( /\ call[c].pc = "handled"
          /\ call[c].handler = "album"
          /\ call[c].idx >= 1
          /\ \A k \in 1..Len(call[c].card_listings) :
                HasLinkAndOptionalDate(call[c].card_listings[k]) )
        => /\ Len(call[c].puts) = Len(call[c].card_listings)
           /\ \A k \in 1..Len(call[c].puts) :
                /\ call[c].puts[k].part_of_album
                /\ call[c].puts[k].parent_title = call[c].scrape_item.parent_title
                /\ call[c].puts[k].possible_datetime =
                      IF call[c].card_listings[k].date = <<>> THEN <<>>
                      ELSE <<parse_datetime(call[c].card_listings[k].date[1])>>

\* a video or other call whose handler has returned after it read the page's link
FileCallReturned(c) ==
    /\ call[c].pc = "handled"
    /\ call[c].handler \in {"video", "other"}
    /\ call[c].link # <<>>

\* C11: in the video and other handlers, when the direct link's last path segment
\* has no extension, the item URL's last path segment is used instead: if that one
\* has an extension, handle_file is called exactly once with the direct link, the
\* item and the fallback filename and extension, and the item is not failed; only if
\* it has none either is the item failed, with no handle_file call.
C11_FilenameFallback ==
    \A c \in Calls :
        (FileCallReturned(c) /\ NoExtension(Name(call[c].link[1]))) =>
            LET item     == call[c].scrape_item
                fallback == Name(item.url)
            IN  IF NoExtension(fallback)
                THEN call[c].failed /\ call[c].handed = <<>>
                ELSE /\ ~call[c].failed
                     /\ call[c].handed =
                            << [link |-> call[c].link[1], scrape_item |-> item,
                                filename |-> FilenameAndExt(fallback).filename,
                                ext |-> FilenameAndExt(fallback).ext] >>

\* C11 witness: a call whose direct link f has no extension has handed the file
\* over under the name of its item URL's last segment, x.mp4
C11_Witness ==
    \E c \in Calls :
        /\ FileCallReturned(c)
        /\ call[c].link[1] = FileLinkRaw
        /\ Len(call[c].handed) = 1
        /\ call[c].handed[1].filename = <<"x",".","m","p","4">>
        /\ call[c].handed[1].ext = <<".","m","p","4">>


(***************************************************************************)
(* Further claims about get_stream_link (SpecLink)                         *)
(***************************************************************************)
\* C16: get_stream_link is idempotent: applied to a URL it has returned, it returns
\* that URL again, so an item enqueued with a normalized link keeps its URL when
\* the fetch call that consumes it normalizes it again.
C16_Idempotent ==
    \A k \in 1..Len(link_out) : get_stream_link(link_out[k]) = link_out[k]

\* C16 witness: get_stream_link has rewritten a URL (a video or other file on a CDN
\* host, moved to the primary domain), and returns the rewritten URL unchanged
C16_Witness ==
    /\ Len(link_out) >= 1
    /\ link_out[1] # link_url
    /\ link_out[1].host = BunkrrSu
    /\ get_stream_link(link_out[1]) = link_out[1]

(***************************************************************************)
(* Claims about parse_datetime (SpecDate)                                  *)
(***************************************************************************)
\* the two-digit number at position i of a date text
FieldAt(s, i) == DigitVal(s[i]) * 10 + DigitVal(s[i + 1])

\* the year at the end of a date text
YearOf(s) == FieldAt(s, 16) * 100 + FieldAt(s, 18)

\* days from 1970-01-01 to January 1st of year y, counted year by year
RECURSIVE DaysToYear(_)
DaysToYear(y) ==
    IF y = 1970 THEN 0
    ELSE IF y > 1970 THEN DaysToYear(y - 1) + (IF IsLeap(y - 1) THEN 366 ELSE 365)
    ELSE DaysToYear(y + 1) - (IF IsLeap(y) THEN 366 ELSE 365)

\* days from January 1st of year y to the first day of month m, counted month by month
RECURSIVE DaysToMonth(_, _)
DaysToMonth(y, m) ==
    IF m <= 1 THEN 0 ELSE DaysToMonth(y, m - 1) + DaysInMonth(y, m - 1)

\* the seconds from 1970-01-01 00:00:00 UTC to the UTC date and time a text of the
\* form HH:MM:SS DD/MM/YYYY names
EpochSeconds(s) ==
    (DaysToYear(YearOf(s)) + DaysToMonth(YearOf(s), FieldAt(s, 13)) + FieldAt(s, 10) - 1) * 86400
        + FieldAt(s, 1) * 3600 + FieldAt(s, 4) * 60 + FieldAt(s, 7)

\* a text HH:MM:SS DD/MM/YYYY that names a date and time that exist
ValidDateText(s) ==
    /\ MatchesFormat(s)
    /\ FieldAt(s, 1) <= 23 /\ FieldAt(s, 4) <= 59 /\ FieldAt(s, 7) <= 59
    /\ YearOf(s) >= 1
    /\ FieldAt(s, 13) \in 1..12
    /\ FieldAt(s, 10) \in 1..DaysInMonth(YearOf(s), FieldAt(s, 13))

\* C12: parse_datetime maps every valid text HH:MM:SS DD/MM/YYYY, read as a UTC
\* date and time with the day before the month, to the whole seconds since
\* 1970-01-01 00:00:00 UTC, leap years included; "14:30:00 05/03/2021" maps to
\* 1614954600.
C12_ParseDatetime ==
    (date_out.called /\ ValidDateText(date_text)) =>
        /\ ~date_out.raised
        /\ date_out.value = EpochSeconds(date_text)
        /\ date_text = Date1 => date_out.value = 1614954600

\* C12 witness: parse_datetime has been called on "14:30:00 05/03/2021" and has
\* returned 1614954600
C12_Witness ==
    /\ date_out.called
    /\ date_text = <<"1","4",":","3","0",":","0","0"," ","0","5","/","0","3","/","2","0","2","1">>
    /\ ~date_out.raised
    /\ date_out.value = 1614954600

(***************************************************************************)
(* Further claims about fetch and the handlers (Spec)                      *)
(***************************************************************************)
\* C13: in every interleaving of fetch calls on the instance, a page fetch
\* (get_BS4) is issued only while cookies_set is true, and no call is awaiting
\* a page while cookies_set is false.
C13_PrimedBeforeFetch ==
    [][ /\ (\E c \in Calls : call[c].pc = "limiter" /\ call'[c].pc = "fetching") => cookies_set
        /\ (\E c \in Calls : call[c].pc = "fetching") => cookies_set ]_vars

\* C13 witness: two calls await their pages at the same time, after the one
\* set_cookies call that injected the cookies
C13_Witness ==
    /\ cookies_set
    /\ \E c, d \in Calls : c # d /\ call[c].pc = "fetching" /\ call[d].pc = "fetching"
    /\ \A n \in CookieNameSet : updates[n] = 1

\* the URL's path has the segment seg
HasSegment(url, seg) == \E i \in 1..Len(url.path) : url.path[i] = seg

\* the handler for a normalized URL: album for a segment a, else video for a
\* segment v, else other
HandlerFor(url) ==
    IF HasSegment(url, <<"a">>) THEN "album"
    ELSE IF HasSegment(url, <<"v">>) THEN "video" ELSE "other"

C15_Termination ==
    <>[](scraper_queue = <<>> /\ tasks = {})

(***************************************************************************)
(* Claims about the album handler (Spec)                                   *)
(***************************************************************************)
\* p is a proper beginning of q
ProperPrefix(p, q) == Len(p) < Len(q) /\ SubSeq(q, 1, Len(p)) = p

\* C17: an album call merges the title into its item's parent_title in one step,
\* before any child is enqueued, and not again: for an item with retry set the
\* parent_title stays as it was, otherwise it is extended; from then on the item is
\* not changed, and every child the call has enqueued carries the item's
\* parent_title.
C17_TitleMergedOnce ==
    [][ \A c \in Calls :
          /\ ( /\ call[c].pc = "fetching" /\ call[c].handler = "album"
               /\ call'[c].pc \in {"listing", "handled"} /\ ~call'[c].failed ) =>
                /\ call'[c].puts = <<>>
                /\ IF call[c].scrape_item.retry
                   THEN call'[c].scrape_item = call[c].scrape_item
                   ELSE ProperPrefix(call[c].scrape_item.parent_title,
                                     call'[c].scrape_item.parent_title)
          /\ (call[c].pc = "listing" /\ call'[c].pc \in {"listing", "handled"}) =>
                call'[c].scrape_item = call[c].scrape_item
          /\ (call'[c].handler = "album" /\ call'[c].pc \in {"listing", "handled"}) =>
                \A k \in 1..Len(call'[c].puts) :
                    call'[c].puts[k].parent_title = call'[c].scrape_item.parent_title ]_vars

\* C17 witness: the album call of an item with retry set and parent_title "old" has
\* returned after enqueueing two children, both with parent_title "old"
C17_Witness ==
    \E c \in Calls :
        /\ call[c].handler = "album"
        /\ call[c].pc = "handled"
        /\ ~call[c].failed
        /\ call[c].scrape_item.retry
        /\ Len(call[c].puts) = 2
        /\ \A k \in 1..2 : call[c].puts[k].parent_title = <<"o","l","d">>

\* C18: when the album handler fails at its k-th listing entry, the children of
\* entries 1..k-1, and no others, have been enqueued by the call, each when its
\* entry was processed; the failing step and the rest of the call leave the queue,
\* these children and the item with its merged parent_title as they are.
C18_PartialAlbumKept ==
    [][ \A c \in Calls :
          /\ (call[c].pc = "listing" /\ call'[c].failed) =>
                /\ EntryRaises(call[c].card_listings[call[c].idx])
                /\ scraper_queue' = scraper_queue
                /\ call'[c].scrape_item = call[c].scrape_item
                /\ call'[c].puts = call[c].puts
                /\ Len(call'[c].puts) = call[c].idx - 1
                /\ \A j \in 1..(call[c].idx - 1) :
                      /\ ~EntryRaises(call[c].card_listings[j])
                      /\ call'[c].puts[j].url =
                            get_stream_link(HrefUrl(call[c].scrape_item,
                                                    call[c].card_listings[j].file[1].href[1]))
          /\ (call[c].pc = "listing" /\ call'[c].pc # "listing" /\ ~call'[c].failed) =>
                Len(call'[c].puts) = Len(call[c].card_listings)
          /\ (call[c].pc = "listing" /\ call'[c] # call[c] /\ ~call'[c].failed) =>
                /\ call'[c].puts = Append(call[c].puts, call'[c].puts[call[c].idx])
                /\ scraper_queue' = Append(scraper_queue, call'[c].puts[call[c].idx])
          /\ (call[c].pc = "handled" /\ call[c].failed /\ call'[c] # call[c]) =>
                scraper_queue' = scraper_queue ]_vars

\* C18 witness: an album call has failed at its second entry; its one child, of the
\* first entry, is on the queue
C18_Witness ==
    \E c \in Calls :
        /\ call[c].handler = "album"
        /\ call[c].pc = "handled"
        /\ call[c].failed
        /\ call[c].idx = 2
        /\ Len(call[c].puts) = 1
        /\ \E i \in 1..Len(scraper_queue) : scraper_queue[i] = call[c].puts[1]

(***************************************************************************)
(* Claims about the progress tracker (Spec)                                *)
(***************************************************************************)
\* a fetch call that has started and has not returned
Running(c) == call[c].pc \in {"added", "limiter", "fetching", "listing", "handled"}

\* C19 as stated: in every step of every interleaving, remove_task is called only
\* with an id that add_task returned, that is still registered (so at most once per
\* id), and by the fetch call that holds it; remove_task calls never outnumber
\* add_task calls; and every task registered in the tracker belongs to a fetch call
\* that has started and has not yet returned.
C19_TrackerConsistent ==
    [][ /\ removeCount' <= addCount'
        /\ tasks' \subseteq 1..addCount'
        /\ removeCount' # removeCount =>
              /\ removeCount' = removeCount + 1
              /\ \E c \in Calls :
                    /\ Running(c)
                    /\ call'[c].pc = "done"
                    /\ call[c].task_id \in tasks
                    /\ tasks' = tasks \ {call[c].task_id}
        /\ removeCount' = removeCount => tasks \subseteq tasks'
        /\ \A t \in tasks' : \E c \in Calls : call'[c].task_id = t /\ Running(c)' ]_vars

====
